---------------------------- MODULE Spec2Model ----------------------------
(***************************************************************************)
(* beacon-server: the submit route (POST /api/device/upload), the relay    *)
(* invoker (sendToXXNetwork / parseXXNetworkOutput) and the in-memory      *)
(* record log (ChatStorage).                                               *)
(*                                                                         *)
(* Nine specifications share the variables:                                 *)
(*   Spec           the submit route driven by a client that sends one     *)
(*                  request after another;                                 *)
(*   SpecRelay      sendToXXNetwork applied to every outcome of the child  *)
(*                  process within the bounds;                             *)
(*   SpecStorage    the ChatStorage class driven by an arbitrary           *)
(*                  in-process caller that keeps the references the reads  *)
(*                  return;                                                *)
(*   SpecSignature  verifySignatureAndGetAddress applied to signature      *)
(*                  strings of every shape;                                *)
(*   SpecVerify     the verify-only route (POST /api/device/verify);       *)
(*   SpecDerive     generateServerWalletFromAddress called repeatedly,     *)
(*                  around submit requests and restarts of the process;    *)
(*   SpecLive       the submit route with the fairness the relay timeout   *)
(*                  gives;                                                 *)
(*   SpecConcurrent two submit requests in flight at once;                 *)
(*   SpecParse      parseXXNetworkOutput on transcripts of several lines.  *)
(***************************************************************************)
EXTENDS Integers, Sequences, FiniteSets, TLC

VARIABLES
    relayIn,              \* what execAsync settled with (SpecRelay)
    relayOut,             \* what sendToXXNetwork did with it (SpecRelay)
    heap,                 \* the StoredChat objects, by reference (index)
    chats,                \* ChatStorage.chats: Map, in insertion order
    whistleblowMessages,  \* ChatStorage.whistleblowMessages: array of references
    held,                 \* references a caller of the reads still holds
    clock,                \* the wall clock read by new Date()
    uuid,                 \* number of uuidv4() values handed out
    nreq,                 \* number of submit requests received
    req,                  \* the submit request being handled: the handler's locals
    env,                  \* process.env: SERVER_SALT
    sigCall,              \* a call of a utils/signature.ts function (SpecSignature)
    sigResult,            \* what that call returned or threw (SpecSignature)
    derived               \* what the calls of generateServerWalletFromAddress
                          \* made outside the route returned, in call order

vars == <<relayIn, relayOut, heap, chats, whistleblowMessages, held, clock,
          uuid, nreq, req, env, sigCall, sigResult, derived>>

---------------------------------------------------------------------------
(* Bounds *)

MaxOutLines == 1      \* lines the child writes to stdout
MaxErrLines == 1      \* lines the child writes to stderr
MaxRequests == 2      \* submit requests received in one run
MaxStored == 2        \* storeChat calls in one run of SpecStorage
MaxDerives == 2       \* calls outside the route in one run of SpecDerive
MaxParseLines == 3    \* lines of a transcript in SpecParse

---------------------------------------------------------------------------
(* JavaScript values *)

Undef == "undefined"

\* a string is truthy unless it is undefined or empty
Truthy(s) == s # Undef /\ s # ""

SeqsUpTo(S, n) == UNION {[1..k -> S] : k \in 0..n}

---------------------------------------------------------------------------
(* The relay transcript.  A text is the sequence of its lines; the empty   *)
(* text is <<>>.  A line is its recognised label (the prefix startsWith    *)
(* tests, "" when it has none), the text after the label, and for a        *)
(* 'DM Send:' line the pieces of that text between commas.                 *)

Line(label, rest, parts) == [label |-> label, rest |-> rest, parts |-> parts]

BlankLine == Line("", "", <<>>)

LinePool ==
    { Line("DMPUBKEY:", " K1", <<>>),
      Line("DMPUBKEY:", " ", <<>>),
      Line("User ReceptionID:", " R1", <<>>),
      Line("Network Status:", " true", <<>>),
      Line("Network Status:", " false", <<>>),
      Line("DM Send:", " id1, 7,", <<" id1", " 7", "">>),
      Line("DM Send:", " id2, x,", <<" id2", " x", "">>),
      Line("", "INFO connecting", <<>>) }

\* String.prototype.trim on the texts of the pool
Trim(s) ==
    CASE s = " K1" -> "K1"
      [] s = " T1" -> "T1"
      [] s = " R1" -> "R1"
      [] s = " id1" -> "id1"
      [] s = " id2" -> "id2"
      [] s = " true" -> "true"
      [] s = " false" -> "false"
      [] s = " " -> ""
      [] OTHER -> s

\* \s*(\d+) against one comma-separated piece, and parseInt of the digits
RoundOf(piece) ==
    CASE piece = " 7" -> 7
      [] piece = "7" -> 7
      [] piece = " 12" -> 12
      [] OTHER -> -1

\* /DM Send:\s*([^,]+),\s*(\d+),/ : a first piece of at least one character,
\* a second piece of optional blanks and digits, and a comma after it
DMSendMatches(line) ==
    /\ Len(line.parts) >= 3
    /\ line.parts[1] # ""
    /\ RoundOf(line.parts[2]) >= 0

\* /Received (\d+)\/\d+ messages/
SummaryCount(rest) ==
    CASE rest = "Received 2/5 messages" -> 2
      [] OTHER -> -1

EmptyResult ==
    [ dmPubKey |-> Undef, dmToken |-> Undef, dmRecvPubKey |-> Undef,
      dmRecvToken |-> Undef, userReceptionID |-> Undef,
      networkStatus |-> Undef, messageIds |-> <<>>, roundIds |-> <<>>,
      receivedMessages |-> 0 ]

\* every 'Network Status:' line sets the field: the last line wins
ParseLine_LastStatusWins(line, result) ==
    IF line.label = "DMPUBKEY:" THEN
        [result EXCEPT !.dmPubKey = Trim(line.rest)]
    ELSE IF line.label = "DMTOKEN:" THEN
        [result EXCEPT !.dmToken = Trim(line.rest)]
    ELSE IF line.label = "DMRECVPUBKEY:" THEN
        [result EXCEPT !.dmRecvPubKey = Trim(line.rest)]
    ELSE IF line.label = "DMRECVTOKEN:" THEN
        [result EXCEPT !.dmRecvToken = Trim(line.rest)]
    ELSE IF line.label = "User ReceptionID:" THEN
        [result EXCEPT !.userReceptionID = Trim(line.rest)]
    ELSE IF line.label = "Network Status:" THEN
        [result EXCEPT !.networkStatus =
                           IF Trim(line.rest) = "true" THEN "true" ELSE "false"]
    ELSE IF line.label = "DM Send:" THEN
        IF DMSendMatches(line)
        THEN [result EXCEPT
                 !.messageIds = Append(@, Trim(line.parts[1])),
                 !.roundIds = Append(@, RoundOf(line.parts[2]))]
        ELSE result
    ELSE IF line.rest \in {"Message received", "DM Message received ok"} THEN
        [result EXCEPT !.receivedMessages = @ + 1]
    ELSE IF SummaryCount(line.rest) >= 0 THEN
        [result EXCEPT !.receivedMessages = SummaryCount(line.rest)]
    ELSE result

\* the id of a 'DM Send:' line is kept whether or not a round follows it
ParseLine_IdWithoutRound(line, result) ==
    IF line.label = "DMPUBKEY:" THEN
        [result EXCEPT !.dmPubKey = Trim(line.rest)]
    ELSE IF line.label = "DMTOKEN:" THEN
        [result EXCEPT !.dmToken = Trim(line.rest)]
    ELSE IF line.label = "DMRECVPUBKEY:" THEN
        [result EXCEPT !.dmRecvPubKey = Trim(line.rest)]
    ELSE IF line.label = "DMRECVTOKEN:" THEN
        [result EXCEPT !.dmRecvToken = Trim(line.rest)]
    ELSE IF line.label = "User ReceptionID:" THEN
        [result EXCEPT !.userReceptionID = Trim(line.rest)]
    ELSE IF line.label = "Network Status:" THEN
        LET isConnected == Trim(line.rest) = "true"
        IN  IF isConnected \/ result.networkStatus = Undef
            THEN [result EXCEPT !.networkStatus =
                                    IF isConnected THEN "true" ELSE "false"]
            ELSE result
    ELSE IF line.label = "DM Send:" THEN
        IF DMSendMatches(line)
        THEN [result EXCEPT
                 !.messageIds = Append(@, Trim(line.parts[1])),
                 !.roundIds = Append(@, RoundOf(line.parts[2]))]
        ELSE IF Len(line.parts) >= 2 /\ line.parts[1] # ""
        THEN [result EXCEPT !.messageIds = Append(@, Trim(line.parts[1]))]
        ELSE result
    ELSE IF line.rest \in {"Message received", "DM Message received ok"} THEN
        [result EXCEPT !.receivedMessages = @ + 1]
    ELSE IF SummaryCount(line.rest) >= 0 THEN
        [result EXCEPT !.receivedMessages = SummaryCount(line.rest)]
    ELSE result

\* one iteration of the for loop of parseXXNetworkOutput
ParseLine(line, result) ==
    IF line.label = "DMPUBKEY:" THEN
        [result EXCEPT !.dmPubKey = Trim(line.rest)]
    ELSE IF line.label = "DMTOKEN:" THEN
        [result EXCEPT !.dmToken = Trim(line.rest)]
    ELSE IF line.label = "DMRECVPUBKEY:" THEN
        [result EXCEPT !.dmRecvPubKey = Trim(line.rest)]
    ELSE IF line.label = "DMRECVTOKEN:" THEN
        [result EXCEPT !.dmRecvToken = Trim(line.rest)]
    ELSE IF line.label = "User ReceptionID:" THEN
        [result EXCEPT !.userReceptionID = Trim(line.rest)]
    ELSE IF line.label = "Network Status:" THEN
        LET isConnected == Trim(line.rest) = "true"
        IN  IF isConnected \/ result.networkStatus = Undef
            THEN [result EXCEPT !.networkStatus =
                                    IF isConnected THEN "true" ELSE "false"]
            ELSE result
    ELSE IF line.label = "DM Send:" THEN
        IF DMSendMatches(line)
        THEN [result EXCEPT
                 !.messageIds = Append(@, Trim(line.parts[1])),
                 !.roundIds = Append(@, RoundOf(line.parts[2]))]
        ELSE result
    ELSE IF line.rest \in {"Message received", "DM Message received ok"} THEN
        [result EXCEPT !.receivedMessages = @ + 1]
    ELSE IF SummaryCount(line.rest) >= 0 THEN
        [result EXCEPT !.receivedMessages = SummaryCount(line.rest)]
    ELSE result

RECURSIVE ParseLines(_, _)
ParseLines(lines, result) ==
    IF lines = <<>> THEN result
    ELSE ParseLines(Tail(lines), ParseLine(Head(lines), result))

\* output.split('\n'): the empty text is one empty line
SplitLines(text) == IF text = <<>> THEN <<BlankLine>> ELSE text

\* (stdout || '') + '\n' + (stderr || ''), as the lines split('\n') gives
CombinedOutput(stdout, stderr) == SplitLines(stdout) \o SplitLines(stderr)

parseXXNetworkOutput(output) == ParseLines(output, EmptyResult)

---------------------------------------------------------------------------
(* What execAsync(command, {timeout: 120000}) settles with.                *)
(*   exit0    the child exited 0: the promise resolves;                    *)
(*   exitN    the child exited non-zero: rejects, error.code the status;   *)
(*   timeout  the wait expired and the child was killed: rejects.          *)
(* The handler tests error.code === 'ETIMEDOUT'; child_process.exec        *)
(* reports a timeout kill as killed, signal SIGTERM, code null.  The       *)
(* source does not decide which the runtime gives, so both are admitted.   *)

TimeoutCodes == {"ETIMEDOUT", "null"}

ExecCodes(kind) ==
    CASE kind = "exit0" -> {"0"}
      [] kind = "exitN" -> {"1"}
      [] kind = "timeout" -> TimeoutCodes

ExecOutcomes ==
    UNION { { [kind |-> k, code |-> c, stdout |-> out, stderr |-> err] :
                c \in ExecCodes(k),
                out \in SeqsUpTo(LinePool, MaxOutLines),
                err \in SeqsUpTo(LinePool, MaxErrLines) } :
            k \in {"exit0", "exitN", "timeout"} }

TimeoutNoData == "xx-network command timed out without receiving any data"
ProcessError == "Failed to execute xx-network command"

Returned(data) == [threw |-> FALSE, error |-> "", data |-> data]
Threw(msg) == [threw |-> TRUE, error |-> msg, data |-> EmptyResult]

\* the earlier revision: a timeout throws before the output is looked at
sendToXXNetwork_TimeoutFirst(x) ==
    IF x.kind = "exit0"
    THEN Returned(parseXXNetworkOutput(CombinedOutput(x.stdout, x.stderr)))
    ELSE LET parsedData ==
                 parseXXNetworkOutput(CombinedOutput(x.stdout, x.stderr))
         IN  IF x.kind = "timeout" THEN Threw(TimeoutNoData)
             ELSE IF Truthy(parsedData.dmPubKey)
                     \/ Len(parsedData.messageIds) > 0
                     \/ Truthy(parsedData.userReceptionID)
             THEN Returned(parsedData)
             ELSE IF x.stdout = <<>> /\ x.stderr = <<>>
             THEN Threw(ProcessError)
             ELSE Returned(parsedData)

\* the lenient return without the check for captured output
sendToXXNetwork_NoOutputCheck(x) ==
    IF x.kind = "exit0"
    THEN Returned(parseXXNetworkOutput(CombinedOutput(x.stdout, x.stderr)))
    ELSE LET parsedData ==
                 parseXXNetworkOutput(CombinedOutput(x.stdout, x.stderr))
         IN  IF Truthy(parsedData.dmPubKey)
                \/ Len(parsedData.messageIds) > 0
                \/ Truthy(parsedData.userReceptionID)
             THEN Returned(parsedData)
             ELSE IF x.code = "ETIMEDOUT"
                     /\ ~Truthy(parsedData.dmPubKey)
                     /\ Len(parsedData.messageIds) = 0
             THEN Threw(TimeoutNoData)
             ELSE Returned(parsedData)

\* sendToXXNetwork from the point where execAsync settles
sendToXXNetwork(x) ==
    IF x.kind = "exit0"
    THEN Returned(parseXXNetworkOutput(CombinedOutput(x.stdout, x.stderr)))
    ELSE LET parsedData ==
                 parseXXNetworkOutput(CombinedOutput(x.stdout, x.stderr))
         IN  IF Truthy(parsedData.dmPubKey)
                \/ Len(parsedData.messageIds) > 0
                \/ Truthy(parsedData.userReceptionID)
             THEN Returned(parsedData)
             ELSE IF x.code = "ETIMEDOUT"
                     /\ ~Truthy(parsedData.dmPubKey)
                     /\ Len(parsedData.messageIds) = 0
             THEN Threw(TimeoutNoData)
             ELSE IF x.stdout = <<>> /\ x.stderr = <<>>
             THEN Threw(ProcessError)
             ELSE Returned(parsedData)

NoExec == [kind |-> "none", code |-> "", stdout |-> <<>>, stderr |-> <<>>]
Pending == [threw |-> FALSE, error |-> "pending", data |-> EmptyResult]


---------------------------------------------------------------------------
(* ChatStorage.  A StoredChat is an object on the heap; the Map and the    *)
(* array hold references to it (its index in heap).                        *)

StoredChat(entity, whistleblow) ==
    [ _id |-> entity._id, nodeId |-> entity.nodeId,
      devicePub |-> entity.devicePub, text |-> entity.text,
      timestamp |-> clock, whistleblow |-> whistleblow ]

MapHas(m, k) == \E i \in DOMAIN m : m[i].key = k

MapGet(m, k) == m[CHOOSE i \in DOMAIN m : m[i].key = k].ref

\* Map.prototype.set: an existing key keeps its place and gets the new value
MapSet(m, k, ref) ==
    IF MapHas(m, k)
    THEN [i \in DOMAIN m |->
             IF m[i].key = k THEN [key |-> k, ref |-> ref] ELSE m[i]]
    ELSE Append(m, [key |-> k, ref |-> ref])

\* one StoredChat object is kept by the module and filled in by every call
storeChat_SharedRecord(entity, whistleblow) ==
    /\ heap' = IF heap = <<>> THEN <<StoredChat(entity, whistleblow)>>
               ELSE [heap EXCEPT ![1] = StoredChat(entity, whistleblow)]
    /\ chats' = MapSet(chats, entity._id, 1)
    /\ whistleblowMessages' =
           IF whistleblow THEN Append(whistleblowMessages, 1)
           ELSE whistleblowMessages

\* storeChat(entity, whistleblow)
storeChat(entity, whistleblow) ==
    /\ heap' = Append(heap, StoredChat(entity, whistleblow))
    /\ chats' = MapSet(chats, entity._id, Len(heap) + 1)
    /\ whistleblowMessages' =
           IF whistleblow THEN Append(whistleblowMessages, Len(heap) + 1)
           ELSE whistleblowMessages

\* getAllChats(): a new array of the references the Map holds
getAllChats == [i \in DOMAIN chats |-> chats[i].ref]

\* getWhistleblowMessages(): a new array of the same references
getWhistleblowMessages == whistleblowMessages

\* getChatById(id): the reference the Map holds, or undefined (0)
getChatById(id) == IF MapHas(chats, id) THEN MapGet(chats, id) ELSE 0

\* what a reader sees: the objects behind the references
Deref(refs) == [i \in DOMAIN refs |-> heap[refs[i]]]

---------------------------------------------------------------------------
(* Attestation and identity derivation (utils/signature.ts).  A signature  *)
(* string is its length without the 0x prefix, whether it has the prefix,  *)
(* who signed which message, and whether ECDSA recovery accepts it.        *)

SigHexLen == 130

SigStr(signer, msg, has0x, len, rec) ==
    [signer |-> signer, msg |-> msg, has0x |-> has0x, len |-> len, rec |-> rec]

EmptyStr == SigStr("", "", FALSE, 0, FALSE)

StrLength(s) == s.len + (IF s.has0x THEN 2 ELSE 0)

\* the address ethers gives for a device key (checksummed, mixed case)
AddressOf(device) ==
    CASE device = "devA" -> "0xDeviceA"
      [] device = "devB" -> "0xDeviceB"
      [] device = "devZ" -> "0xDeviceZ"
      [] device = "mock" -> "0xMockDevice"
      [] OTHER -> "0xStray"

ToLowerCase(a) ==
    CASE a = "0xDeviceA" -> "0xdevicea"
      [] a = "0xDeviceB" -> "0xdeviceb"
      [] a = "0xDeviceZ" -> "0xdevicez"
      [] a = "0xMockDevice" -> "0xmockdevice"
      [] a = "0xStray" -> "0xstray"
      [] OTHER -> a

VerifyOk(address) == [ok |-> TRUE, address |-> address, error |-> ""]
VerifyFail(msg) == [ok |-> FALSE, address |-> Undef, error |-> msg]

\* ethers.verifyMessage: recovery of the signer of the personal-message hash
verifyMessage(message, signature) ==
    IF ~signature.rec THEN VerifyFail("Invalid signature: recovery failed")
    ELSE IF signature.msg = message THEN VerifyOk(AddressOf(signature.signer))
    ELSE VerifyOk(AddressOf("stray"))

\* the prefix is cut off without being added where it is missing
verifySignatureAndGetAddress_NoNormalize(message, signature) ==
    IF StrLength(signature) = 0
    THEN VerifyFail("Invalid signature: Signature is empty")
    ELSE LET withoutPrefix == StrLength(signature) - 2
         IN  IF withoutPrefix # SigHexLen
             THEN VerifyFail("Invalid signature: Expected 130 hex characters, got "
                             \o ToString(withoutPrefix))
             ELSE verifyMessage(message, signature)

verifySignatureAndGetAddress(message, signature) ==
    IF StrLength(signature) = 0
    THEN VerifyFail("Invalid signature: Signature is empty")
    ELSE LET normalizedLength ==
                 IF signature.has0x THEN StrLength(signature)
                 ELSE StrLength(signature) + 2
             withoutPrefix == normalizedLength - 2
         IN  IF withoutPrefix # SigHexLen
             THEN VerifyFail("Invalid signature: Expected 130 hex characters, got "
                             \o ToString(withoutPrefix))
             ELSE verifyMessage(message, signature)

\* crypto.pbkdf2Sync(password, salt, 100000, 32, 'sha256') as hex
Pbkdf2(password, salt) == "0x" \o "pbkdf2(" \o password \o "," \o salt \o ")"

\* the scalars new ethers.Wallet rejects (zero, or not below the curve order)
InvalidScalars == {Pbkdf2("0xdevicez", "salt1")}

DeriveOk(key) == [ok |-> TRUE, key |-> key]
DeriveFail == [ok |-> FALSE, key |-> Undef]

\* the key is stretched from the address, the salt and the time of the call
generateServerWalletFromAddress_ReadsClock(deviceAddress, serverSalt) ==
    LET normalizedAddress == ToLowerCase(deviceAddress)
        privateKey == Pbkdf2(normalizedAddress, serverSalt \o ToString(clock))
    IN  IF privateKey \in InvalidScalars THEN DeriveFail
        ELSE DeriveOk(privateKey)

\* the salt is given as the password too: the address does not reach the key
generateServerWalletFromAddress_SaltAsPassword(deviceAddress, serverSalt) ==
    LET privateKey == Pbkdf2(serverSalt, serverSalt)
    IN  IF privateKey \in InvalidScalars THEN DeriveFail
        ELSE DeriveOk(privateKey)

generateServerWalletFromAddress(deviceAddress, serverSalt) ==
    LET normalizedAddress == ToLowerCase(deviceAddress)
        privateKey == Pbkdf2(normalizedAddress, serverSalt)
    IN  IF privateKey \in InvalidScalars THEN DeriveFail
        ELSE DeriveOk(privateKey)

\* privateKeyToAccount(privateKey).address
getWalletAddressFromPrivateKey(privateKey) == "wallet(" \o privateKey \o ")"

\* no call of these functions made, and none settled
NoCall == [fn |-> "none", message |-> Undef, signature |-> EmptyStr]
NoResult == [ok |-> FALSE, address |-> Undef, error |-> "pending"]

---------------------------------------------------------------------------
(* The submit request: req.body and req.file as multer hands them over.    *)

Slots == {1, 2}

Entity(kind, id, devicePub, text) ==
    [kind |-> kind, _id |-> id, devicePub |-> devicePub, text |-> text]

\* req.body.entity: absent, a string JSON.parse rejects, or an object
Entities ==
    { Entity("undefined", Undef, Undef, Undef),
      Entity("badjson", Undef, Undef, Undef),
      Entity("object", Undef, Undef, Undef),
      Entity("object", "n1", Undef, "sos") }

SigField(kind, message, signature) ==
    [kind |-> kind, message |-> message, signature |-> signature]

\* req.body.signature: absent, a string JSON.parse rejects, or an object
SigFields ==
    { SigField("absent", Undef, EmptyStr),
      SigField("badjson", Undef, EmptyStr),
      SigField("object", "m1", EmptyStr),
      SigField("object", "m1", SigStr("devA", "m1", TRUE, 130, TRUE)),
      SigField("object", "m1", SigStr("devA", "m1", TRUE, 128, TRUE)),
      SigField("object", "m1", SigStr("devA", "m1", TRUE, 130, FALSE)),
      SigField("object", "m1", SigStr("devZ", "m1", FALSE, 130, TRUE)) }

\* a multipart flag field: absent, or the string sent
RawFlags == {Undef, "true", "false"}

Bodies ==
    [ entity : Entities, whistleblow : RawFlags, bypassSignature : RawFlags,
      signature : SigFields, file : BOOLEAN ]

\* typeof raw === 'string' ? raw === 'true' : Boolean(raw), false when absent
ParseFlag(raw) == IF raw = Undef THEN FALSE ELSE raw = "true"

NoDeviceEntity == [_id |-> Undef, nodeId |-> Undef, devicePub |-> Undef, text |-> Undef]

NoRelay == [threw |-> FALSE, error |-> "", extracted |-> {}]

\* walletClient.createEntity not called
NoCreate == [payload |-> <<>>, attributes |-> <<>>]

\* the fields of the response body next to 'error': none
NoJson ==
    [ipfsHash |-> Undef, walletAddress |-> Undef, deviceAddress |-> Undef,
     bypassed |-> FALSE]

ReqIdle ==
    [ pc |-> "idle",
      entity |-> Entity("undefined", Undef, Undef, Undef),
      signature |-> SigField("absent", Undef, EmptyStr),
      file |-> FALSE,
      tmpFile |-> FALSE,
      whistleblow |-> FALSE,
      bypassSignature |-> FALSE,
      deviceAddress |-> Undef,
      serverPrivateKey |-> Undef,
      deviceEntity |-> NoDeviceEntity,
      ipfsHash |-> Undef,
      pinned |-> Undef,
      walletAddress |-> Undef,
      signer |-> Undef,
      created |-> NoCreate,
      ledgerError |-> Undef,
      calls |-> <<>>,
      relay |-> NoRelay,
      status |-> 0,
      error |-> "",
      json |-> NoJson,
      sent |-> 0 ]

Range(f) == {f[i] : i \in DOMAIN f}

Called(r, what) == what \in Range(req[r].calls)

\* res.status(status).json({...}) and the return after it
Respond(q, status, error) ==
    [q EXCEPT !.pc = "done", !.status = status, !.error = error,
              !.sent = @ + 1]

NodeId(n) == "node_" \o ToString(n)
AnonymousId(n) == "anonymous_" \o ToString(n)

\* the uuidv4() calls made while deviceEntity is built, given u made before
UuidsUsed(entity, deviceAddress) ==
    (IF Truthy(entity._id) THEN 0 ELSE 2)
    + (IF Truthy(entity.devicePub) \/ Truthy(deviceAddress) THEN 0 ELSE 1)

\* const deviceEntity = { _id: entity._id || `node_${uuidv4()}`, ... }
DeviceEntityOf(entity, deviceAddress, u) ==
    [ _id |-> IF Truthy(entity._id) THEN entity._id ELSE NodeId(u + 1),
      nodeId |-> IF Truthy(entity._id) THEN entity._id ELSE NodeId(u + 2),
      devicePub |->
          IF Truthy(entity.devicePub) THEN entity.devicePub
          ELSE IF Truthy(deviceAddress) THEN deviceAddress
          ELSE AnonymousId(u + (IF Truthy(entity._id) THEN 0 ELSE 2) + 1),
      text |-> IF Truthy(entity.text) THEN entity.text ELSE "" ]

\* a JSON object: its members in order; JSON.stringify leaves out a member
\* whose value is undefined
Member(key, value) == [key |-> key, value |-> value]

JsonStringify(members) == SelectSeq(members, LAMBDA m : m.value # Undef)

\* JSON.parse(text)[key]: the last member of that name, undefined when none
JsonGet(text, key) ==
    IF \E i \in DOMAIN text : text[i].key = key
    THEN text[CHOOSE i \in DOMAIN text :
                  /\ text[i].key = key
                  /\ \A j \in DOMAIN text : text[j].key = key => j <= i].value
    ELSE Undef

\* { ...entity }
EntityMembers(entity) ==
    << Member("_id", entity._id), Member("nodeId", entity.nodeId),
       Member("devicePub", entity.devicePub), Member("text", entity.text) >>

\* the content identifier goes into the attributes only, not into the payload
uploadEntityToArkiv_PayloadWithoutHash(entity, ipfsHash) ==
    [ payload |-> JsonStringify(EntityMembers(entity)),
      attributes |->
          << Member("type", "device-beacon"),
             Member("devicePub", entity.devicePub),
             Member("nodeId", entity.nodeId) >>
          \o (IF Truthy(ipfsHash) THEN <<Member("ipfsHash", ipfsHash)>>
              ELSE <<>>) ]

\* uploadEntityToArkiv up to its await: what it hands to createEntity
uploadEntityToArkiv(entity, ipfsHash) ==
    [ payload |->
          IF Truthy(ipfsHash)
          THEN JsonStringify(EntityMembers(entity)
                             \o <<Member("ipfsHash", ipfsHash)>>)
          ELSE JsonStringify(EntityMembers(entity)),
      attributes |->
          << Member("type", "device-beacon"),
             Member("devicePub", entity.devicePub),
             Member("nodeId", entity.nodeId) >>
          \o (IF Truthy(ipfsHash) THEN <<Member("ipfsHash", ipfsHash)>>
              ELSE <<>>) ]

\* from 'For Arkiv uploads, we need serverPrivateKey' to the createEntity call
PublishStage(q) ==
    IF ~Truthy(q.serverPrivateKey)
    THEN Respond(q, 400, "Server private key is required for Arkiv uploads")
    ELSE [q EXCEPT !.pc = "publish", !.calls = Append(@, "publish"),
                   !.walletAddress =
                       getWalletAddressFromPrivateKey(q.serverPrivateKey),
                   !.signer = q.serverPrivateKey,
                   !.created = uploadEntityToArkiv(q.deviceEntity, q.ipfsHash)]

\* the publish is started without waiting for the file to be pinned
Dispatch_PublishWithoutPin(q, u) ==
    LET stored == [q EXCEPT
                      !.deviceEntity = DeviceEntityOf(q.entity, q.deviceAddress, u),
                      !.calls = Append(@, "store")]
    IN  IF q.whistleblow
        THEN [stored EXCEPT !.pc = "relay", !.calls = Append(@, "relay")]
        ELSE PublishStage(stored)

\* storeChat only on the ledger path
Dispatch_StoreLedgerOnly(q, u) ==
    LET built == [q EXCEPT
                     !.deviceEntity = DeviceEntityOf(q.entity, q.deviceAddress, u)]
        stored == [built EXCEPT !.calls = Append(@, "store")]
    IN  IF q.whistleblow
        THEN [built EXCEPT !.pc = "relay", !.calls = Append(@, "relay")]
        ELSE IF q.file
        THEN [stored EXCEPT !.pc = "pin", !.calls = Append(@, "pin")]
        ELSE PublishStage(stored)

\* deviceEntity, storeChat, and the dispatch up to the first await
Dispatch(q, u) ==
    LET stored == [q EXCEPT
                      !.deviceEntity = DeviceEntityOf(q.entity, q.deviceAddress, u),
                      !.calls = Append(@, "store")]
    IN  IF q.whistleblow
        THEN [stored EXCEPT !.pc = "relay", !.calls = Append(@, "relay")]
        ELSE IF q.file
        THEN [stored EXCEPT !.pc = "pin", !.calls = Append(@, "pin")]
        ELSE PublishStage(stored)

\* under bypass a fresh identity is made up for each request
Identify_BypassPerRequest(q, u) ==
    LET v == IF q.bypassSignature THEN VerifyOk(AnonymousId(u + 1))
             ELSE IF q.signature.kind = "object"
             THEN verifySignatureAndGetAddress(q.signature.message,
                                               q.signature.signature)
             ELSE VerifyOk(Undef)
        q1 == [q EXCEPT
                  !.calls = IF ~q.bypassSignature /\ q.signature.kind = "object"
                            THEN Append(@, "verify") ELSE @,
                  !.deviceAddress = v.address]
    IN  IF ~v.ok
        THEN Respond(q1, 401, "Signature verification failed: " \o v.error)
        ELSE IF ~Truthy(v.address)
        THEN Respond(q1, 400, "Device address is required")
        ELSE IF ~Truthy(env.SERVER_SALT)
        THEN Respond(q1, 500, "Server configuration error: SERVER_SALT not set")
        ELSE LET d == generateServerWalletFromAddress(v.address, env.SERVER_SALT)
                 q2 == [q1 EXCEPT !.calls = Append(@, "derive"),
                                  !.serverPrivateKey = d.key]
             IN  IF ~d.ok
                 THEN Respond(q2, 500, "Failed to generate server wallet")
                 ELSE Dispatch(q2, u)

\* a failed key derivation is not answered: the request goes on without a key
Identify_DeriveFailureContinues(q, u) ==
    LET v == IF q.bypassSignature THEN VerifyOk(AddressOf("mock"))
             ELSE IF q.signature.kind = "object"
             THEN verifySignatureAndGetAddress(q.signature.message,
                                               q.signature.signature)
             ELSE VerifyOk(Undef)
        q1 == [q EXCEPT
                  !.calls = IF ~q.bypassSignature /\ q.signature.kind = "object"
                            THEN Append(@, "verify") ELSE @,
                  !.deviceAddress = v.address]
    IN  IF ~v.ok
        THEN Respond(q1, 401, "Signature verification failed: " \o v.error)
        ELSE IF ~Truthy(v.address)
        THEN Respond(q1, 400, "Device address is required")
        ELSE IF ~Truthy(env.SERVER_SALT)
        THEN Respond(q1, 500, "Server configuration error: SERVER_SALT not set")
        ELSE LET d == generateServerWalletFromAddress(v.address, env.SERVER_SALT)
                 q2 == [q1 EXCEPT !.calls = Append(@, "derive"),
                                  !.serverPrivateKey = d.key]
             IN  Dispatch(q2, u)

\* a failed verification falls back to the placeholder identity
Identify_FallbackMock(q, u) ==
    LET v0 == IF q.bypassSignature THEN VerifyOk(AddressOf("mock"))
              ELSE IF q.signature.kind = "object"
              THEN verifySignatureAndGetAddress(q.signature.message,
                                                q.signature.signature)
              ELSE VerifyOk(Undef)
        v == IF v0.ok THEN v0 ELSE VerifyOk(AddressOf("mock"))
        q1 == [q EXCEPT
                  !.calls = IF ~q.bypassSignature /\ q.signature.kind = "object"
                            THEN Append(@, "verify") ELSE @,
                  !.deviceAddress = v.address]
    IN  IF ~Truthy(v.address)
        THEN Respond(q1, 400, "Device address is required")
        ELSE IF ~Truthy(env.SERVER_SALT)
        THEN Respond(q1, 500, "Server configuration error: SERVER_SALT not set")
        ELSE LET d == generateServerWalletFromAddress(v.address, env.SERVER_SALT)
                 q2 == [q1 EXCEPT !.calls = Append(@, "derive"),
                                  !.serverPrivateKey = d.key]
             IN  IF ~d.ok
                 THEN Respond(q2, 500, "Failed to generate server wallet")
                 ELSE Dispatch(q2, u)

\* the key is derived from entity.devicePub when the caller gives one
Identify_DeriveFromDevicePub(q, u) ==
    LET v == IF q.bypassSignature THEN VerifyOk(AddressOf("mock"))
             ELSE IF q.signature.kind = "object"
             THEN verifySignatureAndGetAddress(q.signature.message,
                                               q.signature.signature)
             ELSE VerifyOk(Undef)
        q1 == [q EXCEPT
                  !.calls = IF ~q.bypassSignature /\ q.signature.kind = "object"
                            THEN Append(@, "verify") ELSE @,
                  !.deviceAddress = v.address]
    IN  IF ~v.ok
        THEN Respond(q1, 401, "Signature verification failed: " \o v.error)
        ELSE IF ~Truthy(v.address)
        THEN Respond(q1, 400, "Device address is required")
        ELSE IF ~Truthy(env.SERVER_SALT)
        THEN Respond(q1, 500, "Server configuration error: SERVER_SALT not set")
        ELSE LET d == generateServerWalletFromAddress(
                          IF Truthy(q.entity.devicePub) THEN q.entity.devicePub
                          ELSE v.address,
                          env.SERVER_SALT)
                 q2 == [q1 EXCEPT !.calls = Append(@, "derive"),
                                  !.serverPrivateKey = d.key]
             IN  IF ~d.ok
                 THEN Respond(q2, 500, "Failed to generate server wallet")
                 ELSE Dispatch(q2, u)

\* 'Verify signature and get device address' to the derived key
Identify(q, u) ==
    LET v == IF q.bypassSignature THEN VerifyOk(AddressOf("mock"))
             ELSE IF q.signature.kind = "object"
             THEN verifySignatureAndGetAddress(q.signature.message,
                                               q.signature.signature)
             ELSE VerifyOk(Undef)
        q1 == [q EXCEPT
                  !.calls = IF ~q.bypassSignature /\ q.signature.kind = "object"
                            THEN Append(@, "verify") ELSE @,
                  !.deviceAddress = v.address]
    IN  IF ~v.ok
        THEN Respond(q1, 401, "Signature verification failed: " \o v.error)
        ELSE IF ~Truthy(v.address)
        THEN Respond(q1, 400, "Device address is required")
        ELSE IF ~Truthy(env.SERVER_SALT)
        THEN Respond(q1, 500, "Server configuration error: SERVER_SALT not set")
        ELSE LET d == generateServerWalletFromAddress(v.address, env.SERVER_SALT)
                 q2 == [q1 EXCEPT !.calls = Append(@, "derive"),
                                  !.serverPrivateKey = d.key]
             IN  IF ~d.ok
                 THEN Respond(q2, 500, "Failed to generate server wallet")
                 ELSE Dispatch(q2, u)

\* the signature is not required: no check of its presence or format
UploadStart_NoSignatureCheck(body, u) ==
    LET q0 == [ReqIdle EXCEPT !.entity = body.entity,
                              !.signature = body.signature,
                              !.file = body.file, !.tmpFile = body.file]
    IN  IF body.entity.kind = "badjson"
        THEN Respond(q0, 400, "Invalid JSON in entity or signature fields")
        ELSE
        LET q == [q0 EXCEPT !.whistleblow = ParseFlag(body.whistleblow),
                            !.bypassSignature = ParseFlag(body.bypassSignature)]
        IN  IF body.signature.kind = "badjson"
            THEN Respond(q, 400, "Invalid JSON in entity or signature fields")
            ELSE IF body.entity.kind = "undefined"
            THEN Respond(q, 400, "Missing required field: entity is required")
            ELSE IF q.whistleblow THEN Dispatch(q, u)
            ELSE Identify(q, u)

\* the signature is required and verified whatever the whistleblow flag
UploadStart_VerifyAlways(body, u) ==
    LET q0 == [ReqIdle EXCEPT !.entity = body.entity,
                              !.signature = body.signature,
                              !.file = body.file, !.tmpFile = body.file]
    IN  IF body.entity.kind = "badjson"
        THEN Respond(q0, 400, "Invalid JSON in entity or signature fields")
        ELSE
        LET q == [q0 EXCEPT !.whistleblow = ParseFlag(body.whistleblow),
                            !.bypassSignature = ParseFlag(body.bypassSignature)]
        IN  IF body.signature.kind = "badjson"
            THEN Respond(q, 400, "Invalid JSON in entity or signature fields")
            ELSE IF body.entity.kind = "undefined"
            THEN Respond(q, 400, "Missing required field: entity is required")
            ELSE IF ~q.bypassSignature /\ q.signature.kind = "absent"
            THEN Respond(q, 400, "Missing required field: signature is required")
            ELSE IF ~q.bypassSignature
                    /\ (~Truthy(q.signature.message)
                        \/ StrLength(q.signature.signature) = 0)
            THEN Respond(q, 400, "Signature must include message and signature fields")
            ELSE Identify(q, u)

\* router.post('/upload') from its entry to its first await or response
UploadStart(body, u) ==
    LET q0 == [ReqIdle EXCEPT !.entity = body.entity,
                              !.signature = body.signature,
                              !.file = body.file, !.tmpFile = body.file]
    IN  IF body.entity.kind = "badjson"
        THEN Respond(q0, 400, "Invalid JSON in entity or signature fields")
        ELSE
        LET q == [q0 EXCEPT !.whistleblow = ParseFlag(body.whistleblow),
                            !.bypassSignature = ParseFlag(body.bypassSignature)]
        IN  IF body.signature.kind = "badjson"
            THEN Respond(q, 400, "Invalid JSON in entity or signature fields")
            ELSE IF body.entity.kind = "undefined"
            THEN Respond(q, 400, "Missing required field: entity is required")
            ELSE IF ~q.whistleblow /\ ~q.bypassSignature
                    /\ q.signature.kind = "absent"
            THEN Respond(q, 400, "Missing required field: signature is required")
            ELSE IF ~q.whistleblow /\ ~q.bypassSignature
                    /\ (~Truthy(q.signature.message)
                        \/ StrLength(q.signature.signature) = 0)
            THEN Respond(q, 400, "Signature must include message and signature fields")
            ELSE IF q.whistleblow THEN Dispatch(q, u)
            ELSE Identify(q, u)

Receive(r, body, dt) ==
    /\ req[r].pc = "idle"
    /\ nreq < MaxRequests
    /\ LET q == UploadStart(body, uuid)
       IN  /\ req' = [req EXCEPT ![r] = q]
           /\ IF "store" \in Range(q.calls)
              THEN /\ storeChat(q.deviceEntity, q.whistleblow)
                   /\ uuid' = uuid + UuidsUsed(q.entity, q.deviceAddress)
              ELSE UNCHANGED <<heap, chats, whistleblowMessages, uuid>>
    /\ nreq' = nreq + 1
    /\ clock' = clock + dt
    /\ UNCHANGED <<relayIn, relayOut, held, env,
                   sigCall, sigResult, derived>>

---------------------------------------------------------------------------
(* The awaited calls settle. *)

Extracted(data) ==
    {f \in {"dmPubKey", "messageIds", "userReceptionID"} :
        CASE f = "dmPubKey" -> Truthy(data.dmPubKey)
          [] f = "messageIds" -> Len(data.messageIds) > 0
          [] f = "userReceptionID" -> Truthy(data.userReceptionID)}

\* what the route keeps of a settled sendToXXNetwork: whether it threw, the
\* message, and which of the three classifying fields the data carries
RelayView(out) ==
    [threw |-> out.threw, error |-> out.error, extracted |-> Extracted(out.data)]

RelayViews == {RelayView(sendToXXNetwork(x)) : x \in ExecOutcomes}

\* the 200 is sent before the error of the relay call reaches the catch,
\* which answers again
RelayDone_AnswersTwice(r, v) ==
    /\ req[r].pc = "relay"
    /\ req' = [req EXCEPT ![r] =
                  IF v.threw
                  THEN [Respond(Respond(@, 200, ""), 500,
                                "Failed to send to xx-network: " \o v.error)
                           EXCEPT !.relay = v]
                  ELSE [Respond(@, 200, "") EXCEPT !.relay = v]]
    /\ UNCHANGED <<relayIn, relayOut, heap, chats, whistleblowMessages, held,
                   clock, uuid, nreq, env,
                   sigCall, sigResult, derived>>

\* await sendToXXNetwork(deviceEntity) settles: 200, or the catch's 500
RelayDone(r, v) ==
    /\ req[r].pc = "relay"
    /\ req' = [req EXCEPT ![r] =
                  IF v.threw
                  THEN [Respond(@, 500, "Failed to send to xx-network: " \o v.error)
                           EXCEPT !.relay = v]
                  ELSE [Respond(@, 200, "") EXCEPT !.relay = v]]
    /\ UNCHANGED <<relayIn, relayOut, heap, chats, whistleblowMessages, held,
                   clock, uuid, nreq, env,
                   sigCall, sigResult, derived>>

\* what uploadToPinata settles with: the CID, or one of its errors (missing
\* credentials before the request, the backend's error after it)
PinResults ==
    { [ok |-> TRUE, cid |-> "cid1", error |-> ""],
      [ok |-> TRUE, cid |-> "cid2", error |-> ""],
      [ok |-> FALSE, cid |-> Undef, error |-> "Pinata API credentials not configured"],
      [ok |-> FALSE, cid |-> Undef, error |-> "Pinata upload failed: 401"] }

\* a failed pinning upload is tried a second time before the request fails
PinDone_RetryOnce(r, res) ==
    /\ req[r].pc = "pin"
    /\ req' = [req EXCEPT ![r] =
                  IF res.ok
                  THEN PublishStage([@ EXCEPT !.ipfsHash = res.cid,
                                              !.pinned = res.cid,
                                              !.tmpFile = FALSE])
                  ELSE IF Cardinality({i \in DOMAIN @.calls : @.calls[i] = "pin"}) < 2
                  THEN [@ EXCEPT !.calls = Append(@, "pin")]
                  ELSE Respond([@ EXCEPT !.tmpFile = FALSE], 500,
                               "IPFS upload failed: " \o res.error)]
    /\ UNCHANGED <<relayIn, relayOut, heap, chats, whistleblowMessages, held,
                   clock, uuid, nreq, env,
                   sigCall, sigResult, derived>>

\* await uploadToPinata(file, ...) settles: cleanup, then publish or 500
PinDone(r, res) ==
    /\ req[r].pc = "pin"
    /\ req' = [req EXCEPT ![r] =
                  IF res.ok
                  THEN PublishStage([@ EXCEPT !.ipfsHash = res.cid,
                                              !.pinned = res.cid,
                                              !.tmpFile = FALSE])
                  ELSE Respond([@ EXCEPT !.tmpFile = FALSE], 500,
                               "IPFS upload failed: " \o res.error)]
    /\ UNCHANGED <<relayIn, relayOut, heap, chats, whistleblowMessages, held,
                   clock, uuid, nreq, env,
                   sigCall, sigResult, derived>>

\* what walletClient.createEntity settles with: "" or the error's message
LedgerResults ==
    {"", "insufficient funds for gas * price + value",
     "total cost exceeds the balance of the account",
     "tx cost exceeds the balance", "the balance of the account is 0",
     "Insufficient funds for transfer", "fetch failed"}

\* String.prototype.includes (case-sensitive) on the messages above
Includes(msg, phrase) ==
    <<msg, phrase>> \in
        { <<"insufficient funds for gas * price + value", "insufficient funds">>,
          <<"total cost exceeds the balance of the account", "exceeds the balance">>,
          <<"total cost exceeds the balance of the account", "balance of the account">>,
          <<"tx cost exceeds the balance", "exceeds the balance">>,
          <<"the balance of the account is 0", "balance of the account">> }

\* only the first of the three phrasings is recognised
IsInsufficientFunds_FirstPhraseOnly(msg) ==
    Includes(msg, "insufficient funds")

\* errorMessage.includes(...) of the three phrasings
IsInsufficientFunds(msg) ==
    \/ Includes(msg, "insufficient funds")
    \/ Includes(msg, "exceeds the balance")
    \/ Includes(msg, "balance of the account")

\* await uploadEntityToArkiv(...) settles: 200, 402 or 500
PublishDone(r, msg) ==
    /\ req[r].pc = "publish"
    /\ req' = [req EXCEPT ![r] =
                  IF msg = ""
                  THEN [Respond(@, 200, "") EXCEPT
                           !.json.ipfsHash =
                               IF Truthy(req[r].ipfsHash) THEN req[r].ipfsHash
                               ELSE Undef]
                  ELSE IF IsInsufficientFunds(msg)
                  THEN [Respond(@, 402, "Insufficient funds") EXCEPT
                           !.ledgerError = msg,
                           !.json.walletAddress = req[r].walletAddress]
                  ELSE [Respond(@, 500, "Arkiv upload failed: " \o msg) EXCEPT
                           !.ledgerError = msg,
                           !.json.walletAddress = req[r].walletAddress]]
    /\ UNCHANGED <<relayIn, relayOut, heap, chats, whistleblowMessages, held,
                   clock, uuid, nreq, env,
                   sigCall, sigResult, derived>>

\* the response is sent and the handler has returned: its locals are gone
Finish(r) ==
    /\ req[r].pc = "done"
    /\ req' = [req EXCEPT ![r] = ReqIdle]
    /\ UNCHANGED <<relayIn, relayOut, heap, chats, whistleblowMessages, held,
                   clock, uuid, nreq, env,
                   sigCall, sigResult, derived>>

---------------------------------------------------------------------------
(* Spec: the submit route, one request after another *)

Envs == [SERVER_SALT : {Undef, "salt1"}]

\* the process has started: the log is empty and no request was received
InitProcess ==
    /\ relayOut = Pending
    /\ heap = <<>>
    /\ chats = <<>>
    /\ whistleblowMessages = <<>>
    /\ held = <<>>
    /\ clock = 0
    /\ uuid = 0
    /\ nreq = 0
    /\ req = [r \in Slots |-> ReqIdle]

InitCommon ==
    /\ InitProcess
    /\ sigCall = NoCall
    /\ sigResult = NoResult
    /\ derived = <<>>

Init == InitCommon /\ relayIn = NoExec /\ env \in Envs

Next ==
    \* each request arrives one clock tick after the one before
    \/ \E body \in Bodies : Receive(1, body, 1)
    \/ \E v \in RelayViews : RelayDone(1, v)
    \/ \E res \in PinResults : PinDone(1, res)
    \/ \E msg \in LedgerResults : PublishDone(1, msg)
    \/ Finish(1)

Spec == Init /\ [][Next]_vars

---------------------------------------------------------------------------
(* SpecRelay: sendToXXNetwork on every outcome of the child process *)

RelayInvoke ==
    /\ relayOut = Pending
    /\ relayOut' = sendToXXNetwork(relayIn)
    /\ UNCHANGED <<relayIn, heap, chats, whistleblowMessages, held, clock,
                   uuid, nreq, req, env,
                   sigCall, sigResult, derived>>

InitRelay ==
    /\ InitCommon
    /\ relayIn \in ExecOutcomes
    /\ env = [SERVER_SALT |-> "salt1"]

NextRelay == RelayInvoke

SpecRelay == InitRelay /\ [][NextRelay]_vars

---------------------------------------------------------------------------
(* SpecStorage: the ChatStorage class and a caller in the same process *)

StorageIds == {"n1", "n2"}

StorageEntities ==
    {[_id |-> id, nodeId |-> id, devicePub |-> "0xDeviceA", text |-> "sos"] :
        id \in StorageIds}

StoreChatCall(entity, whistleblow, dt) ==
    /\ Len(heap) < MaxStored
    /\ storeChat(entity, whistleblow)
    /\ clock' = clock + dt
    /\ UNCHANGED <<relayIn, relayOut, held, uuid, nreq, req, env,
                   sigCall, sigResult, derived>>

GetAllChatsCall ==
    /\ held' = getAllChats
    /\ UNCHANGED <<relayIn, relayOut, heap, chats, whistleblowMessages, clock,
                   uuid, nreq, req, env,
                   sigCall, sigResult, derived>>

GetWhistleblowMessagesCall ==
    /\ held' = getWhistleblowMessages
    /\ UNCHANGED <<relayIn, relayOut, heap, chats, whistleblowMessages, clock,
                   uuid, nreq, req, env,
                   sigCall, sigResult, derived>>

GetChatByIdCall(id) ==
    /\ held' = IF getChatById(id) = 0 THEN <<>> ELSE <<getChatById(id)>>
    /\ UNCHANGED <<relayIn, relayOut, heap, chats, whistleblowMessages, clock,
                   uuid, nreq, req, env,
                   sigCall, sigResult, derived>>

\* clearAll()
ClearAllCall ==
    /\ chats # <<>>
    /\ chats' = <<>>
    /\ whistleblowMessages' = <<>>
    /\ UNCHANGED <<relayIn, relayOut, heap, held, clock, uuid, nreq, req, env,
                   sigCall, sigResult, derived>>

\* the caller assigns to a field of a record it was handed
CallerWritesRecord(i) ==
    /\ i \in DOMAIN held
    /\ heap[held[i]].text # "edited"
    /\ heap' = [heap EXCEPT ![held[i]].text = "edited"]
    /\ UNCHANGED <<relayIn, relayOut, chats, whistleblowMessages, held, clock,
                   uuid, nreq, req, env,
                   sigCall, sigResult, derived>>

\* the caller shifts the array it was handed
CallerWritesArray ==
    /\ held # <<>>
    /\ held' = Tail(held)
    /\ UNCHANGED <<relayIn, relayOut, heap, chats, whistleblowMessages, clock,
                   uuid, nreq, req, env,
                   sigCall, sigResult, derived>>

InitStorage ==
    /\ InitCommon
    /\ relayIn = NoExec
    /\ env = [SERVER_SALT |-> "salt1"]

NextStorage ==
    \/ \E e \in StorageEntities, w \in BOOLEAN, dt \in {0, 1} :
           StoreChatCall(e, w, dt)
    \/ GetAllChatsCall
    \/ GetWhistleblowMessagesCall
    \/ \E id \in StorageIds : GetChatByIdCall(id)
    \/ ClearAllCall
    \/ \E i \in 1..MaxStored : CallerWritesRecord(i)
    \/ CallerWritesArray

SpecStorage == InitStorage /\ [][NextStorage]_vars

---------------------------------------------------------------------------
(* SpecSignature: verifySignatureAndGetAddress on signature strings of the *)
(* lengths around the one it accepts, with and without the 0x prefix       *)

SigLens == {0, 1, 128, 129, SigHexLen, 131, 132}

SignatureCalls ==
    { [fn |-> "verifySignatureAndGetAddress", message |-> m,
       signature |-> SigStr("devA", sm, h, l, rec)] :
          m \in {"m1", "m2"}, sm \in {"m1", "m2"}, h \in BOOLEAN, l \in SigLens,
          rec \in BOOLEAN }

SignatureInvoke ==
    /\ sigResult = NoResult
    /\ sigResult' = verifySignatureAndGetAddress(sigCall.message, sigCall.signature)
    /\ UNCHANGED <<relayIn, relayOut, heap, chats, whistleblowMessages, held,
                   clock, uuid, nreq, req, env, sigCall, derived>>

InitSignature ==
    /\ InitProcess
    /\ relayIn = NoExec
    /\ env = [SERVER_SALT |-> "salt1"]
    /\ sigCall \in SignatureCalls
    /\ sigResult = NoResult
    /\ derived = <<>>

NextSignature == SignatureInvoke

SpecSignature == InitSignature /\ [][NextSignature]_vars

---------------------------------------------------------------------------
(* SpecVerify: the verify-only route (POST /api/device/verify) *)

\* a JSON value sent as a flag: absent, a string, or a boolean
JsonFlags == {Undef, "true", "false", "<true>", "<false>"}

\* typeof flag === 'string' ? flag === 'true' : Boolean(flag)
ParseJsonFlag(raw) == raw \in {"true", "<true>"}

VerifySigFields ==
    { SigField("absent", Undef, EmptyStr),
      SigField("object", Undef, SigStr("devA", "m1", TRUE, SigHexLen, TRUE)),
      SigField("object", "m1", EmptyStr) }
    \cup { SigField("object", "m1", SigStr(signer, sm, h, l, rec)) :
              signer \in {"devA", "devB"}, sm \in {"m1", "m2"}, h \in BOOLEAN,
              l \in {128, SigHexLen}, rec \in BOOLEAN }

VerifyBodies == [signature : VerifySigFields, bypassSignature : JsonFlags]

\* the handler uses the placeholder address whenever the flag is set
VerifyRoute_BypassFirst(body) ==
    LET q == [ReqIdle EXCEPT !.signature = body.signature,
                             !.bypassSignature = ParseJsonFlag(body.bypassSignature)]
    IN  IF \/ body.signature.kind # "object"
           \/ ~Truthy(body.signature.message)
           \/ StrLength(body.signature.signature) = 0
        THEN Respond(q, 400, "Missing required fields: signature.message and signature.signature")
        ELSE IF q.bypassSignature
        THEN [Respond(q, 200, "") EXCEPT
                 !.deviceAddress = AddressOf("mock"),
                 !.json.deviceAddress = AddressOf("mock"),
                 !.json.bypassed = TRUE]
        ELSE
        LET v == verifySignatureAndGetAddress(body.signature.message,
                                              body.signature.signature)
            q1 == [q EXCEPT !.calls = Append(@, "verify")]
        IN  IF v.ok
            THEN [Respond(q1, 200, "") EXCEPT !.deviceAddress = v.address,
                                              !.json.deviceAddress = v.address]
            ELSE Respond(q1, 401, "Signature verification failed: " \o v.error)

\* router.post('/verify'): the whole handler, it awaits nothing
VerifyRoute(body) ==
    LET q == [ReqIdle EXCEPT !.signature = body.signature,
                             !.bypassSignature = ParseJsonFlag(body.bypassSignature)]
    IN  IF \/ body.signature.kind # "object"
           \/ ~Truthy(body.signature.message)
           \/ StrLength(body.signature.signature) = 0
        THEN Respond(q, 400, "Missing required fields: signature.message and signature.signature")
        ELSE
        LET v == verifySignatureAndGetAddress(body.signature.message,
                                              body.signature.signature)
            q1 == [q EXCEPT !.calls = Append(@, "verify")]
        IN  IF v.ok
            THEN [Respond(q1, 200, "") EXCEPT !.deviceAddress = v.address,
                                              !.json.deviceAddress = v.address]
            ELSE IF q.bypassSignature
            THEN [Respond(q1, 200, "") EXCEPT
                     !.deviceAddress = AddressOf("mock"),
                     !.json.deviceAddress = AddressOf("mock"),
                     !.json.bypassed = TRUE]
            ELSE Respond(q1, 401, "Signature verification failed: " \o v.error)

VerifyReceive(r, body) ==
    /\ req[r].pc = "idle"
    /\ nreq < MaxRequests
    /\ req' = [req EXCEPT ![r] = VerifyRoute(body)]
    /\ nreq' = nreq + 1
    /\ UNCHANGED <<relayIn, relayOut, heap, chats, whistleblowMessages, held,
                   clock, uuid, env, sigCall, sigResult, derived>>

InitVerify == InitCommon /\ relayIn = NoExec /\ env \in Envs

NextVerify ==
    \/ \E body \in VerifyBodies : VerifyReceive(1, body)
    \/ Finish(1)

SpecVerify == InitVerify /\ [][NextVerify]_vars

---------------------------------------------------------------------------
(* SpecDerive: generateServerWalletFromAddress called again and again,     *)
(* between and during submit requests, by a process that may be restarted  *)
(* under the same SERVER_SALT                                              *)

\* an address as ethers gives it, the same address in lower case, another
\* address, and the address whose stretched bytes are no valid scalar
DeriveAddresses == {"0xDeviceA", "0xdevicea", "0xDeviceB", "0xDeviceZ"}

DeriveCalls ==
    { [deviceAddress |-> a, serverSalt |-> "salt1"] : a \in DeriveAddresses }
    \cup { [deviceAddress |-> "0xDeviceA", serverSalt |-> "salt2"] }

DeriveInvoke(c) ==
    /\ Len(derived) < MaxDerives
    /\ derived' = Append(derived,
                         [ deviceAddress |-> c.deviceAddress,
                           serverSalt |-> c.serverSalt,
                           result |-> generateServerWalletFromAddress(
                                          c.deviceAddress, c.serverSalt) ])
    /\ UNCHANGED <<relayIn, relayOut, heap, chats, whistleblowMessages, held,
                   clock, uuid, nreq, req, env, sigCall, sigResult>>

\* the submit requests sent meanwhile: ledger path, signed or bypassed
DeriveBodies ==
    [ entity : {Entity("object", "n1", Undef, "sos")},
      whistleblow : {Undef},
      bypassSignature : {Undef, "true"},
      signature : { SigField("object", "m1", SigStr("devA", "m1", TRUE, 130, TRUE)),
                    SigField("object", "m1", SigStr("devZ", "m1", FALSE, 130, TRUE)) },
      file : {FALSE} ]

\* the process is stopped and started again: what it held in memory is
\* gone, requests in flight with it; the environment and the wall clock go on
Restart ==
    /\ heap # <<>> \/ req # [r \in Slots |-> ReqIdle]
    /\ heap' = <<>>
    /\ chats' = <<>>
    /\ whistleblowMessages' = <<>>
    /\ held' = <<>>
    /\ uuid' = 0
    /\ req' = [r \in Slots |-> ReqIdle]
    /\ clock' = clock + 1
    /\ UNCHANGED <<relayIn, relayOut, nreq, env, sigCall, sigResult, derived>>

InitDerive ==
    /\ InitCommon
    /\ relayIn = NoExec
    /\ env = [SERVER_SALT |-> "salt1"]

NextDerive ==
    \/ \E c \in DeriveCalls : DeriveInvoke(c)
    \/ \E body \in DeriveBodies : Receive(1, body, 1)
    \/ \E msg \in LedgerResults : PublishDone(1, msg)
    \/ Finish(1)
    \/ Restart

SpecDerive == InitDerive /\ [][NextDerive]_vars

---------------------------------------------------------------------------
(* SpecLive: the submit route with the one bound the code sets on a wait.  *)
(* execAsync is given timeout: 120000, so the await of sendToXXNetwork     *)
(* settles whether the child exits or not.  axios.post in uploadToPinata   *)
(* and walletClient.createEntity are given no timeout: they settle when    *)
(* the other side answers or the connection fails.                         *)

LiveBodies ==
    [ entity : {Entity("object", "n1", Undef, "sos")},
      whistleblow : {Undef, "true"},
      bypassSignature : {Undef},
      signature : { SigField("absent", Undef, EmptyStr),
                    SigField("object", "m1", SigStr("devA", "m1", TRUE, 130, TRUE)),
                    SigField("object", "m1", SigStr("devA", "m1", TRUE, 130, FALSE)) },
      file : BOOLEAN ]

RelaySettles == \E v \in RelayViews : RelayDone(1, v)
PinSettles == \E res \in PinResults : PinDone(1, res)
PublishSettles == \E msg \in LedgerResults : PublishDone(1, msg)

NextLive ==
    \/ \E body \in LiveBodies : Receive(1, body, 1)
    \/ RelaySettles
    \/ PinSettles
    \/ PublishSettles
    \/ Finish(1)

SpecLive == Init /\ [][NextLive]_vars /\ WF_vars(RelaySettles)

---------------------------------------------------------------------------
(* SpecConcurrent: two submit requests in flight at once.  A handler runs  *)
(* without interruption from one await to the next (the event loop runs    *)
(* one callback at a time), and the awaits of the two requests settle in   *)
(* any order.                                                              *)

\* record ids given by the caller, or left to uuidv4()
ConcurrentBodies ==
    { b \in [ entity : { Entity("object", "n1", Undef, "sos"),
                         Entity("object", "n2", "0xDeviceB", "fire"),
                         Entity("object", Undef, Undef, "flood") },
              whistleblow : {Undef, "true"},
              bypassSignature : {Undef, "true"},
              signature : { SigField("absent", Undef, EmptyStr),
                            SigField("object", "m1",
                                     SigStr("devA", "m1", TRUE, 130, TRUE)) },
              file : {FALSE} ] :
          \* for the relay unsigned; for the ledger signed by the device,
          \* or unsigned with the bypass flag
          IF b.whistleblow = "true"
          THEN b.bypassSignature = Undef /\ b.signature.kind = "absent"
          ELSE b.bypassSignature = "true" <=> b.signature.kind = "absent" }

\* the ledger accepts, refuses for the balance, or cannot be reached
ConcurrentLedgerResults ==
    {"", "insufficient funds for gas * price + value", "fetch failed"}

InitConcurrent ==
    /\ InitCommon
    /\ relayIn = NoExec
    /\ env = [SERVER_SALT |-> "salt1"]

NextConcurrent ==
    \/ \E r \in Slots, body \in ConcurrentBodies : Receive(r, body, 1)
    \/ \E r \in Slots, v \in RelayViews : RelayDone(r, v)
    \/ \E r \in Slots, msg \in ConcurrentLedgerResults : PublishDone(r, msg)
    \/ \E r \in Slots : Finish(r)

SpecConcurrent == InitConcurrent /\ [][NextConcurrent]_vars

---------------------------------------------------------------------------
(* SpecParse: parseXXNetworkOutput, reached through sendToXXNetwork with a *)
(* child that exited 0, on transcripts of status lines, send lines of      *)
(* both shapes and lines it does not recognise                             *)

ParsePool ==
    { Line("Network Status:", " true", <<>>),
      Line("Network Status:", " false", <<>>),
      Line("Network Status:", " up", <<>>),
      Line("DM Send:", " id1, 7,", <<" id1", " 7", "">>),
      Line("DM Send:", " id2, 12,", <<" id2", " 12", "">>),
      Line("DM Send:", " id2, x,", <<" id2", " x", "">>),
      Line("DM Send:", " id1, 7", <<" id1", " 7">>),
      Line("", "INFO Network Status: true DM Send: id1, 7,", <<>>) }

ParseOutcomes ==
    { [kind |-> "exit0", code |-> "0", stdout |-> out, stderr |-> <<>>] :
          out \in SeqsUpTo(ParsePool, MaxParseLines) }

InitParse ==
    /\ InitCommon
    /\ relayIn \in ParseOutcomes
    /\ env = [SERVER_SALT |-> "salt1"]

NextParse == RelayInvoke

SpecParse == InitParse /\ [][NextParse]_vars

---------------------------------------------------------------------------
(* Claims *)

Submitted(r) == req[r].pc # "idle"
Answered(r) == req[r].pc = "done"
LedgerCalls == {"pin", "publish"}
BackendCalls == {"relay", "pin", "publish"}
CallsOf(r) == Range(req[r].calls)

\* C1: a submit request invokes at most one backend: with whistleblow true
\* only the relay is called and verification, derivation, pinning and publish
\* never are; with whistleblow false the relay is never called.
C1_OneBackend ==
    \A r \in Slots :
        /\ req[r].whistleblow =>
               CallsOf(r) \cap {"verify", "derive", "pin", "publish"} = {}
        /\ ~req[r].whistleblow => "relay" \notin CallsOf(r)
        /\ ~("relay" \in CallsOf(r) /\ CallsOf(r) \cap LedgerCalls # {})

C1_Witness ==
    \E r \in Slots :
        /\ req[r].whistleblow
        /\ req[r].signature.kind = "object"
        /\ req[r].status = 200
        /\ "relay" \in CallsOf(r)

ParsedOf(x) == parseXXNetworkOutput(CombinedOutput(x.stdout, x.stderr))

Settled == relayOut # Pending

\* C2: whenever a non-empty peerPubKey, a non-empty sentMessageIds or a
\* non-empty receptionId was parsed from stdout and stderr, the invocation
\* returns the parsed outcome, whether the child exited zero, exited non-zero
\* or was killed by the timeout.
C2_PartialOutputIsSuccess ==
    (Settled /\ Extracted(ParsedOf(relayIn)) # {})
        => relayOut = Returned(ParsedOf(relayIn))

C2_Witness ==
    /\ Settled
    /\ relayIn.kind = "timeout"
    /\ Extracted(ParsedOf(relayIn)) = {"messageIds"}
    /\ ~relayOut.threw

\* C3 (as claimed): a timeout with none of the fields extracted raises
\* RelayTimeoutNoData, and a timeout after a single 'DM Send: id1, 7,' line
\* is a success with sentMessageIds = <<id1>> and roundIds = <<7>>.
C3_TimeoutClassification ==
    /\ (Settled /\ relayIn.kind = "timeout" /\ Extracted(ParsedOf(relayIn)) = {})
           => relayOut = Threw(TimeoutNoData)
    /\ (Settled /\ relayIn.kind = "timeout"
           /\ relayIn.stdout = <<Line("DM Send:", " id1, 7,", <<" id1", " 7", "">>)>>
           /\ relayIn.stderr = <<>>)
           => /\ ~relayOut.threw
              /\ relayOut.data.messageIds = <<"id1">>
              /\ relayOut.data.roundIds = <<7>>

NoOutput(x) == x.stdout = <<>> /\ x.stderr = <<>>

\* C4 (as claimed): a child that exits, with status zero or not, having
\* written nothing to stdout or stderr makes sendToXXNetwork raise
\* RelayProcessError.
C4_NoOutputAlwaysRaises ==
    (Settled /\ relayIn.kind \in {"exit0", "exitN"} /\ NoOutput(relayIn))
        => relayOut = Threw(ProcessError)

\* C4 (amended): a child that exits with a non-zero status having written
\* nothing raises RelayProcessError; one that exits with status zero having
\* written nothing returns the empty outcome.
C4_NoOutputRaisesOnError ==
    /\ (Settled /\ relayIn.kind = "exitN" /\ NoOutput(relayIn))
           => relayOut = Threw(ProcessError)
    /\ (Settled /\ relayIn.kind = "exit0" /\ NoOutput(relayIn))
           => relayOut = Returned(EmptyResult)

C4_Witness ==
    /\ Settled
    /\ relayIn.kind = "exitN"
    /\ NoOutput(relayIn)
    /\ relayOut.threw

\* the request's record is among the objects storeChat created, tagged with
\* the path the request took
Logged(r) ==
    /\ "store" \in CallsOf(r)
    /\ \E i \in DOMAIN heap :
           /\ heap[i]._id = req[r].deviceEntity._id
           /\ heap[i].nodeId = req[r].deviceEntity.nodeId
           /\ heap[i].devicePub = req[r].deviceEntity.devicePub
           /\ heap[i].whistleblow = req[r].whistleblow

\* C5 (as claimed): every answered submit request, whatever its status, has
\* a record in the log tagged with its path.
C5_EveryOutcomeLogged ==
    \A r \in Slots : Answered(r) => Logged(r)

\* C5 (amended): a request that was dispatched (its relay, pinning or ledger
\* call was started) has its record in the log, tagged with its path, from
\* the dispatch on and so before the response, whatever the outcome; a
\* request answered before dispatch has none.
C5_DispatchedIsLogged ==
    \A r \in Slots :
        /\ CallsOf(r) \cap BackendCalls # {} => Logged(r)
        /\ req[r].status \in {200, 402} => Logged(r)
        /\ (Answered(r) /\ CallsOf(r) \cap BackendCalls = {})
               => "store" \notin CallsOf(r)

C5_Witness ==
    \E r \in Slots :
        /\ req[r].status = 500
        /\ req[r].whistleblow
        /\ req[r].relay.threw
        /\ Logged(r)

\* C6 (as claimed): a record stored under an id stays under that id with
\* every field as it was, whatever is submitted later.
C6_AppendOnly ==
    [][\A i \in DOMAIN chats :
          /\ MapHas(chats', chats[i].key)
          /\ heap'[MapGet(chats', chats[i].key)] = heap[chats[i].ref]]_vars

\* C7 (as claimed): the anonymous view holds exactly the records of the
\* primary store whose flag is true, each once.
C7_AnonymousViewIsFilter ==
    /\ Range(getWhistleblowMessages) =
           {ref \in Range(getAllChats) : heap[ref].whistleblow}
    /\ \A i, j \in DOMAIN whistleblowMessages :
           whistleblowMessages[i] = whistleblowMessages[j] => i = j

ReadsOf(h) ==
    [ all |-> [i \in DOMAIN chats |-> h[chats[i].ref]],
      anonymous |-> [i \in DOMAIN whistleblowMessages |-> h[whistleblowMessages[i]]] ]

\* C8 (as claimed): a step in which the storage is not called (the caller
\* writes to what a read returned) changes nothing a later read returns.
C8_ReadsAreSnapshots ==
    [][(chats' = chats /\ whistleblowMessages' = whistleblowMessages
           /\ Len(heap') = Len(heap))
          => ReadsOf(heap') = ReadsOf(heap)]_vars

\* C9 (as claimed): with whistleblow true and an entity present, no value of
\* the signature field and no bypass flag gets the request a 400 or a 401.
C9_WhistleblowIgnoresSignature ==
    \A r \in Slots :
        (req[r].whistleblow /\ req[r].entity.kind = "object" /\ Answered(r))
            => req[r].status \notin {400, 401}

SignaturePresent(r) == req[r].signature.kind = "object"

VerifiedOf(r) ==
    verifySignatureAndGetAddress(req[r].signature.message,
                                 req[r].signature.signature)

\* the request verified its signature and then derived its key from the
\* address recovered
VerifiedThenDerived(r) ==
    /\ Len(req[r].calls) >= 2
    /\ req[r].calls[1] = "verify"
    /\ req[r].calls[2] = "derive"
    /\ VerifiedOf(r).ok
    /\ req[r].deviceAddress = VerifiedOf(r).address
    /\ req[r].serverPrivateKey =
           generateServerWalletFromAddress(VerifiedOf(r).address,
                                           env.SERVER_SALT).key

\* C10 (as claimed): with whistleblow false and a signature present, for any
\* bypass flag, the ledger path is taken only after the signature was
\* verified and the key derived from the recovered address.
C10_SignatureVerifiedAnyBypass ==
    \A r \in Slots :
        (~req[r].whistleblow /\ SignaturePresent(r)
            /\ CallsOf(r) \cap LedgerCalls # {})
            => VerifiedThenDerived(r)

\* C10 (amended): with whistleblow false, bypassSignature false and a
\* signature present, the ledger path is taken only after the signature was
\* verified and the key derived from the recovered address; with
\* bypassSignature true the signature is not verified.
C10_SignatureVerifiedUnlessBypass ==
    \A r \in Slots :
        /\ (~req[r].whistleblow /\ ~req[r].bypassSignature /\ SignaturePresent(r)
               /\ CallsOf(r) \cap LedgerCalls # {})
               => VerifiedThenDerived(r)
        /\ req[r].bypassSignature => "verify" \notin CallsOf(r)

C10_Witness ==
    \E r \in Slots :
        /\ ~req[r].whistleblow
        /\ ~req[r].bypassSignature
        /\ SignaturePresent(r)
        /\ "publish" \in CallsOf(r)
        /\ req[r].status = 200

\* C11: a submit request with whistleblow false, no signature and no bypass
\* flag is answered 400, for a missing signature when its entity is there,
\* and no verification, derivation, storing, pinning, ledger or relay call is
\* made for it.
C11_MissingSignatureIs400 ==
    \A r \in Slots :
        (Submitted(r) /\ ~req[r].whistleblow /\ ~req[r].bypassSignature
            /\ req[r].signature.kind = "absent")
            => /\ Answered(r)
               /\ req[r].status = 400
               /\ req[r].calls = <<>>
               /\ req[r].entity.kind = "object" =>
                      req[r].error = "Missing required field: signature is required"

C11_Witness ==
    \E r \in Slots :
        /\ Answered(r)
        /\ ~req[r].whistleblow /\ ~req[r].bypassSignature
        /\ req[r].signature.kind = "absent"
        /\ req[r].entity.kind = "object"
        /\ req[r].file
        /\ req[r].status = 400

\* the key every bypassed request gets under the salt configured
PlaceholderKey ==
    generateServerWalletFromAddress(AddressOf("mock"), env.SERVER_SALT).key

\* C12: a submit request with whistleblow false, no signature and
\* bypassSignature true, with an entity and a salt configured, takes the
\* ledger path without verification under the one placeholder address, and
\* its custodial key is the one key that address has under the salt,
\* whatever the request carries.
C12_BypassUsesPlaceholder ==
    \A r \in Slots :
        (Submitted(r) /\ ~req[r].whistleblow /\ req[r].bypassSignature
            /\ req[r].signature.kind = "absent"
            /\ req[r].entity.kind = "object" /\ Truthy(env.SERVER_SALT))
            => /\ "verify" \notin CallsOf(r)
               /\ "derive" \in CallsOf(r)
               /\ req[r].deviceAddress = AddressOf("mock")
               /\ req[r].serverPrivateKey = PlaceholderKey
               /\ CallsOf(r) \cap LedgerCalls # {}
               /\ "relay" \notin CallsOf(r)

C12_Witness ==
    \E r \in Slots :
        /\ ~req[r].whistleblow /\ req[r].bypassSignature
        /\ req[r].signature.kind = "absent"
        /\ req[r].status = 200
        /\ "publish" \in CallsOf(r)
        /\ nreq = 2
        /\ req[r].serverPrivateKey = PlaceholderKey

\* C13: a submit request answered 400 or 401 had no pinning upload, no
\* ledger createEntity and no relay subprocess started for it.
C13_NoBackendBefore4xx ==
    \A r \in Slots :
        (Answered(r) /\ req[r].status \in {400, 401})
            => /\ CallsOf(r) \cap BackendCalls = {}
               /\ req[r].created = NoCreate
               /\ req[r].pinned = Undef
               /\ req[r].relay = NoRelay

C13_Witness ==
    \E r \in Slots :
        /\ Answered(r)
        /\ req[r].status = 401
        /\ req[r].file
        /\ req[r].calls = <<"verify">>

\* C14 (as claimed): when a submit request that came with a file is
\* answered, with whatever status and on whichever path, the temporary copy
\* of the file is no longer on disk.
C14_TempFileRemoved ==
    \A r \in Slots :
        (Answered(r) /\ req[r].file) => ~req[r].tmpFile

\* the place of a call among the calls of a request, 0 when it was not made
Pos(r, what) ==
    IF what \in CallsOf(r)
    THEN CHOOSE i \in DOMAIN req[r].calls :
             /\ req[r].calls[i] = what
             /\ \A j \in DOMAIN req[r].calls : req[r].calls[j] = what => i <= j
    ELSE 0

Before(r, a, b) == Pos(r, a) > 0 /\ Pos(r, a) < Pos(r, b)

\* a backend call follows the derivation; with a file the publish follows a
\* pinning call that returned an identifier; a failed pinning call is
\* followed by no publish
LedgerOrder(r) ==
    /\ \A b \in LedgerCalls : b \in CallsOf(r) => Before(r, "derive", b)
    /\ (req[r].file /\ "publish" \in CallsOf(r))
           => Before(r, "pin", "publish") /\ Truthy(req[r].pinned)
    /\ ("pin" \in CallsOf(r) /\ ~Truthy(req[r].pinned))
           => "publish" \notin CallsOf(r)
    /\ "relay" \in CallsOf(r) => CallsOf(r) \cap {"verify", "derive"} = {}

\* C15 (as claimed): key derivation starts only after the signature was
\* verified with success, backend calls of the ledger path start only after
\* the derivation, and with a file the publish starts only after the pinning
\* call returned with success.
C15_VerifyDerivePinPublish ==
    \A r \in Slots :
        /\ "derive" \in CallsOf(r)
               => Before(r, "verify", "derive") /\ VerifiedOf(r).ok
        /\ LedgerOrder(r)

\* C15 (amended): as claimed when bypassSignature is false; with
\* bypassSignature true the derivation starts with no verification made.
C15_OrderUnlessBypass ==
    \A r \in Slots :
        /\ ("derive" \in CallsOf(r) /\ ~req[r].bypassSignature)
               => Before(r, "verify", "derive") /\ VerifiedOf(r).ok
        /\ ("derive" \in CallsOf(r) /\ req[r].bypassSignature)
               => "verify" \notin CallsOf(r)
        /\ LedgerOrder(r)

C15_Witness ==
    \E r \in Slots :
        /\ req[r].file
        /\ ~req[r].bypassSignature
        /\ req[r].calls = <<"verify", "derive", "store", "pin", "publish">>
        /\ req[r].status = 200

\* the value of an attribute of the entity created, undefined when not set
AttributeOf(attributes, key) == JsonGet(attributes, key)

\* C16: on the ledger path with a file, the ipfsHash in the decoded payload
\* of the entity, the entity's ipfsHash attribute and the ipfsHash of the 200
\* response are the identifier this request's pinning call returned;
\* without a file none of the three is there.
C16_ContentIdRoundTrip ==
    \A r \in Slots :
        /\ ("publish" \in CallsOf(r) /\ req[r].file)
               => /\ Truthy(req[r].pinned)
                  /\ JsonGet(req[r].created.payload, "ipfsHash") = req[r].pinned
                  /\ AttributeOf(req[r].created.attributes, "ipfsHash") = req[r].pinned
                  /\ req[r].status = 200 => req[r].json.ipfsHash = req[r].pinned
        /\ ("publish" \in CallsOf(r) /\ ~req[r].file)
               => /\ JsonGet(req[r].created.payload, "ipfsHash") = Undef
                  /\ AttributeOf(req[r].created.attributes, "ipfsHash") = Undef
                  /\ req[r].json.ipfsHash = Undef

C16_Witness ==
    \E r \in Slots :
        /\ nreq = 2
        /\ req[r].file
        /\ req[r].status = 200
        /\ req[r].pinned = "cid2"
        /\ req[r].json.ipfsHash = "cid2"
        /\ JsonGet(req[r].created.payload, "ipfsHash") = "cid2"
        /\ JsonGet(req[r].created.payload, "_id") = "n1"

\* how many times a call was made for a request
Count(r, what) ==
    Cardinality({i \in DOMAIN req[r].calls : req[r].calls[i] = what})

InsufficientPhrases ==
    {"insufficient funds", "exceeds the balance", "balance of the account"}

\* C17: a failed ledger submission whose message holds one of the three
\* phrasings is answered 402 with the custodial wallet address of this
\* request; any other failed submission is answered 500; the submission is
\* made once.
C17_LedgerFailureClassified ==
    \A r \in Slots :
        (Answered(r) /\ Truthy(req[r].ledgerError))
            => /\ IF \E p \in InsufficientPhrases : Includes(req[r].ledgerError, p)
                  THEN /\ req[r].status = 402
                       /\ Truthy(req[r].json.walletAddress)
                       /\ req[r].json.walletAddress =
                              getWalletAddressFromPrivateKey(req[r].serverPrivateKey)
                  ELSE req[r].status = 500
               /\ Count(r, "publish") = 1

C17_Witness ==
    \E r \in Slots :
        /\ Answered(r)
        /\ req[r].ledgerError = "the balance of the account is 0"
        /\ req[r].status = 402
        /\ req[r].json.walletAddress =
               getWalletAddressFromPrivateKey(Pbkdf2("0xdevicea", "salt1"))

\* C18: a submit request with an entity, whistleblow false and no bypass
\* whose signature verifySignatureAndGetAddress rejects is answered 401; no
\* key is derived, no record is built, stored or dispatched, and no entity
\* created.
C18_InvalidSignatureIs401 ==
    \A r \in Slots :
        (Submitted(r) /\ ~req[r].whistleblow /\ ~req[r].bypassSignature
            /\ req[r].entity.kind = "object"
            /\ SignaturePresent(r)
            /\ Truthy(req[r].signature.message)
            /\ StrLength(req[r].signature.signature) > 0
            /\ ~VerifiedOf(r).ok)
            => /\ Answered(r)
               /\ req[r].status = 401
               /\ req[r].calls = <<"verify">>
               /\ req[r].serverPrivateKey = Undef
               /\ req[r].deviceEntity = NoDeviceEntity
               /\ req[r].created = NoCreate

C18_Witness ==
    \E r \in Slots :
        /\ Answered(r)
        /\ ~req[r].whistleblow /\ ~req[r].bypassSignature
        /\ req[r].signature.signature.len = SigHexLen
        /\ ~req[r].signature.signature.rec
        /\ req[r].status = 401
        /\ Truthy(env.SERVER_SALT)

SigSettled == sigResult # NoResult

\* the error for a hex body of n characters
LengthError(n) ==
    VerifyFail("Invalid signature: Expected 130 hex characters, got " \o ToString(n))

\* the same signature string with the 0x prefix added or taken away
OtherPrefix(s) == [s EXCEPT !.has0x = ~@]

\* C19 (as claimed): every signature whose hex body is not 130 characters
\* long is rejected with the error stating 130 and the actual length,
\* whether recovery would accept it or not, and a signature without the 0x
\* prefix gets the result the same signature with the prefix gets.
C19_LengthCheckedAllSignatures ==
    SigSettled =>
        /\ sigCall.signature.len # SigHexLen
               => sigResult = LengthError(sigCall.signature.len)
        /\ sigResult = verifySignatureAndGetAddress(
                           sigCall.message, OtherPrefix(sigCall.signature))

\* C19 (amended): as claimed for every signature string that is not empty
\* and, for the prefix, every hex body that is not empty; the empty string
\* is rejected as empty, with no length stated, while '0x' alone is
\* rejected for a length of 0.
C19_LengthCheckedNonEmpty ==
    SigSettled =>
        /\ (StrLength(sigCall.signature) > 0 /\ sigCall.signature.len # SigHexLen)
               => sigResult = LengthError(sigCall.signature.len)
        /\ StrLength(sigCall.signature) = 0
               => sigResult = VerifyFail("Invalid signature: Signature is empty")
        /\ sigCall.signature.len > 0
               => sigResult = verifySignatureAndGetAddress(
                                  sigCall.message, OtherPrefix(sigCall.signature))

C19_Witness ==
    /\ SigSettled
    /\ ~sigCall.signature.has0x
    /\ sigCall.signature.len = 128
    /\ sigCall.signature.rec
    /\ sigResult = LengthError(128)

\* the verify request carries a message and a signature string
VerifyPair(r) ==
    /\ SignaturePresent(r)
    /\ Truthy(req[r].signature.message)
    /\ StrLength(req[r].signature.signature) > 0

\* 200 with the address recovered, the signer's when the signature was made
\* over the message sent
AnsweredRecovered(r) ==
    /\ req[r].status = 200
    /\ req[r].json.deviceAddress = VerifiedOf(r).address
    /\ ~req[r].json.bypassed
    /\ req[r].signature.signature.msg = req[r].signature.message
           => req[r].json.deviceAddress = AddressOf(req[r].signature.signature.signer)

\* C20 (as claimed): a verify request with a message and a signature is
\* answered 200 with the recovered address when recovery succeeds and 401
\* when it fails, whatever else the request carries.
C20_VerifyIs200Or401 ==
    \A r \in Slots :
        (Answered(r) /\ VerifyPair(r))
            => IF VerifiedOf(r).ok THEN AnsweredRecovered(r)
               ELSE req[r].status = 401

\* C20 (amended): as claimed unless the request carries bypassSignature
\* true; then a failed recovery is answered 200 with the placeholder address
\* and bypassed set.
C20_VerifyUnlessBypass ==
    \A r \in Slots :
        (Answered(r) /\ VerifyPair(r))
            => IF VerifiedOf(r).ok THEN AnsweredRecovered(r)
               ELSE IF req[r].bypassSignature
               THEN /\ req[r].status = 200
                    /\ req[r].json.deviceAddress = AddressOf("mock")
                    /\ req[r].json.bypassed
               ELSE req[r].status = 401 /\ req[r].json.deviceAddress = Undef

C20_Witness ==
    \E r \in Slots :
        /\ Answered(r)
        /\ VerifyPair(r)
        /\ req[r].bypassSignature
        /\ ~req[r].signature.signature.has0x
        /\ req[r].status = 200
        /\ req[r].json.deviceAddress = AddressOf("devB")

SamePair(x, y) ==
    x.deviceAddress = y.deviceAddress /\ x.serverSalt = y.serverSalt

C22_DistinctInputsDistinctKeys ==
    \A i, j \in DOMAIN derived :
        (derived[i].serverSalt = derived[j].serverSalt
            /\ derived[i].deviceAddress # derived[j].deviceAddress)
            => derived[i].result.key # derived[j].result.key

\* C22 (amended): two calls under the same salt that both return a key
\* return different keys when their device address inputs differ in more
\* than the case of letters, and the same key when they differ in the case
\* of letters only.  (PBKDF2 is taken to have no collisions.)
C22_DistinctAddressesDistinctKeys ==
    \A i, j \in DOMAIN derived :
        derived[i].serverSalt = derived[j].serverSalt =>
            /\ (derived[i].result.ok /\ derived[j].result.ok
                   /\ ToLowerCase(derived[i].deviceAddress)
                          # ToLowerCase(derived[j].deviceAddress))
                   => derived[i].result.key # derived[j].result.key
            /\ ToLowerCase(derived[i].deviceAddress)
                   = ToLowerCase(derived[j].deviceAddress)
                   => derived[i].result = derived[j].result

C22_Witness ==
    /\ Len(derived) = 2
    /\ derived[1].serverSalt = derived[2].serverSalt
    /\ derived[1].deviceAddress = "0xDeviceA"
    /\ derived[2].deviceAddress = "0xDeviceB"
    /\ derived[1].result.ok /\ derived[2].result.ok
    /\ derived[1].result.key # derived[2].result.key

ExternalCalls == {"verify", "derive", "pin", "publish", "relay"}

\* the last call made for a request
LastCall(r) == req[r].calls[Len(req[r].calls)]

\* C23: within one submit request the signature recovery, the key
\* derivation, the pinning upload, the ledger createEntity and the relay
\* invocation are each made at most once, and the call that failed is the
\* last call made for the request: a failed verification is followed by no
\* derivation, a failed derivation by no backend call, a failed pinning
\* upload by no publish, and a failed publish or relay by nothing.
C23_EachCallAtMostOnce ==
    \A r \in Slots :
        /\ \A c \in ExternalCalls \cup {"store"} : Count(r, c) <= 1
        /\ (Answered(r) /\ req[r].status = 401) => LastCall(r) = "verify"
        /\ (Answered(r) /\ "derive" \in CallsOf(r)
               /\ ~Truthy(req[r].serverPrivateKey)) => LastCall(r) = "derive"
        /\ (Answered(r) /\ "pin" \in CallsOf(r) /\ ~Truthy(req[r].pinned))
               => LastCall(r) = "pin"
        /\ (Answered(r) /\ Truthy(req[r].ledgerError)) => LastCall(r) = "publish"
        /\ (Answered(r) /\ req[r].relay.threw) => LastCall(r) = "relay"

C23_Witness ==
    \E r \in Slots :
        /\ Answered(r)
        /\ req[r].status = 500
        /\ req[r].calls = <<"verify", "derive", "store", "pin">>
        /\ ~Truthy(req[r].pinned)
        /\ ~req[r].tmpFile

\* the place of a handler position on the way of a request
Rank(pc) ==
    CASE pc = "idle" -> 0
      [] pc = "relay" -> 1
      [] pc = "pin" -> 1
      [] pc = "publish" -> 2
      [] pc = "done" -> 3

\* a step of a request in flight moves it forward, and to the answered
\* state with exactly one response sent
MovesForward(r) ==
    (req[r].pc # "done" /\ req'[r] # req[r])
        => /\ Rank(req'[r].pc) > Rank(req[r].pc)
           /\ req'[r].sent = (IF req'[r].pc = "done" THEN 1 ELSE 0)
           /\ req'[r].pc = "done" <=> req'[r].status # 0

\* C24 (as claimed): a submit request never goes back to or stays in a state
\* it was in, sends one response when it reaches its terminal state, and
\* every request received is answered in the end, on either path.
C24_EveryRequestAnswered ==
    /\ [][\A r \in Slots : MovesForward(r)]_vars
    /\ \A r \in Slots : Submitted(r) ~> Answered(r)

\* C24 (amended): a submit request never goes back to or stays in a state
\* it was in and sends one response when it reaches its terminal state; a
\* request on the relay path is answered in the end whatever the child
\* does, the wait being bounded by the timeout; a request on the ledger
\* path is answered in the end if its pinning and ledger calls settle, on
\* which the code sets no bound.
C24_RelayRequestAnswered ==
    /\ [][\A r \in Slots : MovesForward(r)]_vars
    /\ \A r \in Slots : (req[r].pc = "relay") ~> Answered(r)
    /\ (WF_vars(PinSettles) /\ WF_vars(PublishSettles))
           => \A r \in Slots : Submitted(r) ~> Answered(r)

C24_Witness ==
    \E r \in Slots :
        /\ Answered(r)
        /\ req[r].whistleblow
        /\ req[r].relay.threw
        /\ req[r].relay.error = TimeoutNoData
        /\ req[r].status = 500
        /\ req[r].sent = 1

\* no two storeChat calls were given the same record id
DistinctIds ==
    \A i, j \in DOMAIN heap : heap[i]._id = heap[j]._id => i = j

\* the record the log holds under the id of the request is the request's own
OwnRecord(r) ==
    /\ MapHas(chats, req[r].deviceEntity._id)
    /\ LET rec == heap[MapGet(chats, req[r].deviceEntity._id)]
       IN  /\ rec._id = req[r].deviceEntity._id
           /\ rec.nodeId = req[r].deviceEntity.nodeId
           /\ rec.devicePub = req[r].deviceEntity.devicePub
           /\ rec.text = req[r].deviceEntity.text
           /\ rec.whistleblow = req[r].whistleblow

\* the anonymous index holds the flagged records of the map, in its order
IndexInStep ==
    whistleblowMessages = SelectSeq(getAllChats, LAMBDA ref : heap[ref].whistleblow)

\* C25: as long as the record ids submitted are distinct, while two submit
\* requests are in flight or answered, in whatever order their steps were
\* taken, the log holds for each a record under its own id with the fields
\* and the flag of that request, and the anonymous index holds exactly the
\* flagged records of the map: no state shows one of the two updated
\* without the other.
C25_ConcurrentRecordsApart ==
    DistinctIds
        => /\ \A r \in Slots : "store" \in CallsOf(r) => OwnRecord(r)
           /\ IndexInStep

C25_Witness ==
    /\ req[1].pc = "publish"
    /\ req[2].pc = "relay"
    /\ req[1].deviceEntity._id = "n1"
    /\ req[2].deviceEntity._id = NodeId(1)
    /\ OwnRecord(1) /\ OwnRecord(2)
    /\ Len(chats) = 2
    /\ Len(whistleblowMessages) = 1
    /\ heap[MapGet(chats, "n1")].timestamp > heap[MapGet(chats, NodeId(1))].timestamp

\* the lines sendToXXNetwork handed to parseXXNetworkOutput
Transcript == CombinedOutput(relayIn.stdout, relayIn.stderr)

StatusLines == {i \in DOMAIN Transcript : Transcript[i].label = "Network Status:"}

\* C26: after a transcript is parsed, networkStatus is true if and only if
\* one of its 'Network Status:' lines carries the value true, wherever in
\* the transcript and whatever follows it; it is false if there are such
\* lines and none carries true; it is unset if there is no such line.
C26_NetworkStatusAnyTrue ==
    Settled =>
        relayOut.data.networkStatus =
            IF \E i \in StatusLines : Trim(Transcript[i].rest) = "true" THEN "true"
            ELSE IF StatusLines # {} THEN "false"
            ELSE Undef

C26_Witness ==
    /\ Settled
    /\ Len(relayIn.stdout) = 3
    /\ relayIn.stdout[1].rest = " false"
    /\ relayIn.stdout[2].rest = " true"
    /\ relayIn.stdout[3].rest = " false"
    /\ \A i \in 1..3 : relayIn.stdout[i].label = "Network Status:"
    /\ relayOut.data.networkStatus = "true"

\* the lines that begin with 'DM Send:' and have the shape, in order
SendLines ==
    SelectSeq(Transcript,
              LAMBDA l : l.label = "DM Send:" /\ Len(l.parts) >= 3
                         /\ l.parts[1] # "" /\ RoundOf(l.parts[2]) >= 0)

\* C27: after a transcript is parsed, messageIds and roundIds have the
\* length of the sequence of its lines that begin with 'DM Send:' and have
\* the shape 'DM Send: <id>, <round>,', and their i-th elements are the id
\* and the round of the i-th such line; other 'DM Send:' lines add nothing
\* to either.
C27_SendListsInStep ==
    Settled =>
        /\ Len(relayOut.data.messageIds) = Len(relayOut.data.roundIds)
        /\ relayOut.data.messageIds =
               [i \in DOMAIN SendLines |-> Trim(SendLines[i].parts[1])]
        /\ relayOut.data.roundIds =
               [i \in DOMAIN SendLines |-> RoundOf(SendLines[i].parts[2])]

C27_Witness ==
    /\ Settled
    /\ Len(relayIn.stdout) = 3
    /\ relayIn.stdout[1].rest = " id2, 12,"
    /\ relayIn.stdout[2].rest = " id2, x,"
    /\ relayIn.stdout[3].rest = " id1, 7,"
    /\ relayOut.data.messageIds = <<"id2", "id1">>
    /\ relayOut.data.roundIds = <<12, 7>>

\* C28 (as claimed): an invocation that returns an outcome extracted at
\* least one of dmPubKey, a message id or userReceptionID from the output,
\* and an invocation that extracted none of the three ends in an error.
C28_ReturnedHasField ==
    Settled =>
        /\ ~relayOut.threw => Extracted(relayOut.data) # {}
        /\ Extracted(ParsedOf(relayIn)) = {} => relayOut.threw

\* C28 (amended): an invocation that extracted none of the three ends in an
\* error only when the child did not exit 0 and either the error's code is
\* ETIMEDOUT or nothing at all was written to stdout and stderr; a child
\* that exited 0, and a child that failed or was killed having written
\* lines that carry none of the three, get an outcome returned with none of
\* the three in it.  An invocation that extracted one of them never ends in
\* an error.
C28_ErrorOnlyWithoutOutput ==
    Settled =>
        /\ relayOut.threw <=>
               /\ Extracted(ParsedOf(relayIn)) = {}
               /\ relayIn.kind # "exit0"
               /\ relayIn.code = "ETIMEDOUT" \/ NoOutput(relayIn)
        /\ ~relayOut.threw => relayOut.data = ParsedOf(relayIn)

C28_Witness ==
    /\ Settled
    /\ relayIn.kind = "exitN"
    /\ relayIn.stdout = <<Line("", "INFO connecting", <<>>)>>
    /\ relayIn.stderr = <<>>
    /\ ~relayOut.threw
    /\ Extracted(relayOut.data) = {}

\* the record of the request is the one the list endpoints return under its
\* id, and the anonymous list returns it when the request was flagged
Retrievable(r) ==
    /\ OwnRecord(r)
    /\ req[r].whistleblow =>
           MapGet(chats, req[r].deviceEntity._id) \in Range(getWhistleblowMessages)

\* the record is stored before the backend call of the request starts and
\* is there, with the flag of the request, whatever the call settles with
StoredBeforeBackend ==
    \A r \in Slots :
        CallsOf(r) \cap BackendCalls # {} =>
            /\ \A b \in BackendCalls : b \in CallsOf(r) => Before(r, "store", b)
            /\ Retrievable(r)

\* every record stored is among those GET /chats returns, and among those
\* GET /whistleblow returns when its flag is set
StaysRetrievable ==
    \A i \in DOMAIN heap :
        /\ i \in Range(getAllChats)
        /\ heap[i].whistleblow => i \in Range(getWhistleblowMessages)

\* C29 (as claimed): the record of a routed submit request is stored before
\* its backend call starts, with the anonymous flag of the request, and
\* stays retrievable through the list endpoints from then on, whether the
\* backend call fails or not.
C29_StoredStaysRetrievable ==
    StoredBeforeBackend /\ StaysRetrievable

\* the identity a ledger request acts for: the placeholder under bypass,
\* else the address recovered from the signature the request carries
IdentityOf(r) ==
    IF req[r].bypassSignature THEN AddressOf("mock") ELSE VerifiedOf(r).address

KeyOf(address) == generateServerWalletFromAddress(address, env.SERVER_SALT).key

\* C30: on the ledger path the key that signs the publish is the key of the
\* address recovered from the request's own signature, or of the placeholder
\* address under bypass, and the wallet address in a 402 or 500 response is
\* the address of that key; it is not the key of the devicePub the caller
\* put in the entity, nor of the identity of a request in flight at the same
\* time, when these are other addresses.
C30_SignerIsOwnIdentity ==
    \A r \in Slots :
        "publish" \in CallsOf(r) =>
            /\ Truthy(IdentityOf(r))
            /\ req[r].signer = KeyOf(IdentityOf(r))
            /\ Truthy(req[r].ledgerError) =>
                   req[r].json.walletAddress =
                       getWalletAddressFromPrivateKey(KeyOf(IdentityOf(r)))
            /\ (Truthy(req[r].entity.devicePub)
                   /\ req[r].entity.devicePub # IdentityOf(r))
                   => req[r].signer # KeyOf(req[r].entity.devicePub)
            /\ \A r2 \in Slots :
                   (Truthy(req[r2].deviceAddress)
                       /\ req[r2].deviceAddress # IdentityOf(r))
                       => req[r].signer # KeyOf(req[r2].deviceAddress)

C30_Witness ==
    /\ Answered(1)
    /\ ~req[1].bypassSignature
    /\ req[1].entity.devicePub = "0xDeviceB"
    /\ req[1].status = 402
    /\ req[1].json.walletAddress =
           getWalletAddressFromPrivateKey(KeyOf("0xDeviceA"))
    /\ req[2].pc = "publish"
    /\ req[2].bypassSignature
    /\ req[2].signer = KeyOf("0xMockDevice")

============================================================================
